---------------------------- MODULE Spec2Model ----------------------------
(***************************************************************************)
(* packcharm: the pack() pipeline of src/packcharm/packcharm.py.           *)
(*                                                                         *)
(* The state is the part of the machine pack() reads and writes: the       *)
(* project directory, the per-project cache under ~/.packcharm, the output *)
(* archive, the staging directory ./packcharm-<time>, and the position of  *)
(* the running invocation.  Every statement of pack() that has an effect   *)
(* is one action; every external command draws its return code from        *)
(* {0, 1}.  File names are strings; Chars gives their characters, which    *)
(* is what fnmatch and the shell work on.                                  *)
(*                                                                         *)
(* Spec runs invocations one after the other; ConcSpec runs two at the     *)
(* same time in one project directory.                                     *)
(***************************************************************************)
EXTENDS Integers, Sequences, FiniteSets, TLC

\* Number of pack() invocations run one after the other on the project.
MaxRuns == 2

---------------------------------------------------------------------------
(* Names and their characters *)

Chars ==
    ".git" :> <<".", "g", "i", "t">> @@
    "config" :> <<"c", "o", "n", "f", "i", "g">> @@
    "my.charm" :> <<"m", "y", ".", "c", "h", "a", "r", "m">> @@
    "venv" :> <<"v", "e", "n", "v">> @@
    "metadata.yaml" :> <<"m", "e", "t", "a", "d", "a", "t", "a", ".", "y", "a", "m", "l">> @@
    "charmcraft.yaml" :> <<"c", "h", "a", "r", "m", "c", "r", "a", "f", "t", ".", "y", "a", "m", "l">> @@
    "requirements.txt" :> <<"r", "e", "q", "u", "i", "r", "e", "m", "e", "n", "t", "s", ".", "t", "x", "t">> @@
    ".gitignore" :> <<".", "g", "i", "t", "i", "g", "n", "o", "r", "e">> @@
    "src" :> <<"s", "r", "c">> @@
    "charm.py" :> <<"c", "h", "a", "r", "m", ".", "p", "y">> @@
    "old.charm" :> <<"o", "l", "d", ".", "c", "h", "a", "r", "m">> @@
    "lib" :> <<"l", "i", "b">> @@
    "a.py" :> <<"a", ".", "p", "y">> @@
    "charms" :> <<"c", "h", "a", "r", "m", "s">> @@
    "b.py" :> <<"b", ".", "p", "y">> @@
    "build" :> <<"b", "u", "i", "l", "d">> @@
    "out.bin" :> <<"o", "u", "t", ".", "b", "i", "n">> @@
    "manifest.yaml" :> <<"m", "a", "n", "i", "f", "e", "s", "t", ".", "y", "a", "m", "l">> @@
    "dispatch" :> <<"d", "i", "s", "p", "a", "t", "c", "h">> @@
    "assets" :> <<"a", "s", "s", "e", "t", "s">> @@
    "data.bin" :> <<"d", "a", "t", "a", ".", "b", "i", "n">> @@
    "sub" :> <<"s", "u", "b">> @@
    "x.py" :> <<"x", ".", "p", "y">> @@
    "tools" :> <<"t", "o", "o", "l", "s">> @@
    "secret.txt" :> <<"s", "e", "c", "r", "e", "t", ".", "t", "x", "t">> @@
    "*.charm" :> <<"*", ".", "c", "h", "a", "r", "m">> @@
    "packcharm-*" :> <<"p", "a", "c", "k", "c", "h", "a", "r", "m", "-", "*">> @@
    "*.yaml" :> <<"*", ".", "y", "a", "m", "l">> @@
    "*.txt" :> <<"*", ".", "t", "x", "t">> @@
    "out.zip" :> <<"o", "u", "t", ".", "z", "i", "p">> @@
    "overlay" :> <<"o", "v", "e", "r", "l", "a", "y">> @@
    "partreq" :> <<"p", "a", "r", "t", "r", "e", "q">> @@
    "packcharm-1" :> <<"p", "a", "c", "k", "c", "h", "a", "r", "m", "-", "1">> @@
    "packcharm-2" :> <<"p", "a", "c", "k", "c", "h", "a", "r", "m", "-", "2">> @@
    "packcharm-3" :> <<"p", "a", "c", "k", "c", "h", "a", "r", "m", "-", "3">> @@
    "packcharm-4" :> <<"p", "a", "c", "k", "c", "h", "a", "r", "m", "-", "4">> @@
    "a" :> <<"a">> @@
    "b" :> <<"b">> @@
    "c" :> <<"c">> @@
    "a;v<\"3\"" :> <<"a", ";", "v", "<", "\"", "3", "\"">> @@
    "a;v<3" :> <<"a", ";", "v", "<", "3">> @@
    "req" :> <<"r", "e", "q">> @@
    "pip" :> <<"p", "i", "p">> @@
    "stale" :> <<"s", "t", "a", "l", "e">>

\* The name whose characters are cs ("?" when it is none of the table's).
NameOf(cs) ==
    IF \E s \in DOMAIN Chars : Chars[s] = cs
    THEN CHOOSE s \in DOMAIN Chars : Chars[s] = cs
    ELSE "?"

\* pathlib.Path(f'./packcharm-{time.time()}'): the clock is strictly
\* increasing from one invocation to the next, so the r-th invocation's
\* staging directory has a name of its own.
TempName(r) == <<"packcharm-1", "packcharm-2", "packcharm-3", "packcharm-4">>[r]

---------------------------------------------------------------------------
(* Exclusion filter *)

\* fnmatch.fnmatchcase on a name: "*" matches any run of characters, "?"
\* any one character, every other character itself.
RECURSIVE fnmatch(_, _)
fnmatch(name, pat) ==
    IF pat = <<>> THEN name = <<>>
    ELSE IF Head(pat) = "*"
         THEN fnmatch(name, Tail(pat))
              \/ (name # <<>> /\ fnmatch(Tail(name), pat))
         ELSE /\ name # <<>>
              /\ (Head(pat) = "?" \/ Head(pat) = Head(name))
              /\ fnmatch(Tail(name), Tail(pat))

BUILTIN_IGNORES == <<".git", "*.charm", "packcharm-*", "venv">>

MARKER == "metadata.yaml"

\* s without every element equal to x (while x in s: s.remove(x)).
RemoveAll(s, x) == SelectSeq(s, LAMBDA e : e # x)

\* The module-level COPY_IGNORES for an ignore file ig = [present, lines].
COPY_IGNORES(ig) ==
    IF ig.present
    THEN RemoveAll(BUILTIN_IGNORES \o ig.lines, MARKER)
    ELSE BUILTIN_IGNORES

\* shutil.ignore_patterns(*patterns) on one name of a directory listing.
IgnoredName(name, patterns) ==
    \E i \in 1..Len(patterns) : fnmatch(Chars[name], Chars[patterns[i]])

IgnoredTopOnly(path, patterns) == IgnoredName(path[1], patterns)

\* copytree calls the ignore function on the listing of every directory it
\* enters: an entry is skipped when its own name or the name of a directory
\* above it (below the copy's root) is ignored.
Ignored(path, patterns) ==
    \E i \in 1..Len(path) : IgnoredName(path[i], patterns)

---------------------------------------------------------------------------
(* Trees: a set of entries [path, dir] on the source side, a function from *)
(* path to the entry's origin on the destination side.                     *)

F(p) == [path |-> p, dir |-> FALSE]
D(p) == [path |-> p, dir |-> TRUE]

EmptyTree == [p \in {} |-> 0]

IsPrefix(pre, p) == Len(pre) < Len(p) /\ SubSeq(p, 1, Len(pre)) = pre

\* The entries below directory pre, with paths relative to it.
SubTree(entries, pre) ==
    { [path |-> SubSeq(e.path, Len(pre) + 1, Len(e.path)), dir |-> e.dir] :
        e \in { x \in entries : IsPrefix(pre, x.path) } }

Origin(from, n, dir) == [from |-> from, n |-> n, dir |-> dir, exec |-> FALSE]

copytreeKeep(src, dst, patterns, from, n) ==
    LET kept == { e \in src : ~Ignored(e.path, patterns) }
        new  == { e.path : e \in kept } \ DOMAIN dst
        ent(p) == CHOOSE e \in kept : e.path = p
    IN [p \in (DOMAIN dst) \cup new |->
          IF p \in new THEN Origin(from, n, ent(p).dir) ELSE dst[p]]

\* shutil.copytree(src, dst, dirs_exist_ok=True, ignore=ignore_patterns(...)):
\* every entry of src that is not ignored lands in dst at the same relative
\* path; a file already there is overwritten, a directory is kept.
copytree(src, dst, patterns, from, n) ==
    LET kept == { e \in src : ~Ignored(e.path, patterns) }
        new  == { e.path : e \in kept }
        ent(p) == CHOOSE e \in kept : e.path = p
    IN [p \in (DOMAIN dst) \cup new |->
          IF p \in new THEN Origin(from, n, ent(p).dir) ELSE dst[p]]

---------------------------------------------------------------------------
(* The projects pack() is run on *)

\* The entries of the project directory that the user wrote.  assets/,
\* overlay/ and tools/ are the source directories of parts; src/old.charm,
\* src/metadata.yaml, assets/sub/old.charm and assets/venv are names an
\* exclusion pattern can match below the top level.  The part sources hold
\* paths that the project root or another part holds too (requirements.txt,
\* src/charm.py, data.bin), and the root and assets/ hold files with the
\* names of the generated ones (manifest.yaml, dispatch).
ProjectFiles(ig, hasMarker) ==
    { F(<<"charmcraft.yaml">>), F(<<"requirements.txt">>),
      F(<<"manifest.yaml">>),
      F(<<"assets", "requirements.txt">>), F(<<"assets", "dispatch">>),
      D(<<"assets", "src">>), F(<<"assets", "src", "charm.py">>),
      F(<<"assets", "src", "x.py">>),
      D(<<"overlay">>), F(<<"overlay", "data.bin">>),
      D(<<".git">>), F(<<".git", "config">>),
      D(<<"src">>), F(<<"src", "charm.py">>), F(<<"src", "old.charm">>),
      F(<<"src", "metadata.yaml">>),
      D(<<"lib">>), F(<<"lib", "a.py">>),
      D(<<"lib", "charms">>), F(<<"lib", "charms", "b.py">>),
      D(<<"venv">>), F(<<"venv", "x.py">>),
      D(<<"build">>), F(<<"build", "out.bin">>),
      D(<<"assets">>), F(<<"assets", "data.bin">>),
      D(<<"assets", "sub">>), F(<<"assets", "sub", "old.charm">>),
      D(<<"assets", "venv">>), F(<<"assets", "venv", "x.py">>),
      D(<<"tools">>), F(<<"tools", "secret.txt">>) }
    \cup (IF hasMarker THEN {F(<<MARKER>>)} ELSE {})
    \cup (IF ig.present THEN {F(<<".gitignore">>)} ELSE {})

\* charmcraft.yaml's parts, in the order of the document.  plugin "" is a
\* part with no plugin key (part.get('plugin') is None).  Every part has
\* the build-packages key, and a dump part has override-pull and source.
PartsFull ==
    << [name |-> "charm",  plugin |-> "charm", pkgs |-> <<"gcc", "make">>,
        source |-> <<"tools">>],
       [name |-> "assets", plugin |-> "dump",  pkgs |-> <<"git">>,
        source |-> <<"assets">>],
       [name |-> "extra",  plugin |-> "",      pkgs |-> <<>>,
        source |-> <<"build">>],
       [name |-> "overlay", plugin |-> "dump", pkgs |-> <<>>,
        source |-> <<"overlay">>] >>

NoIgnore == [present |-> FALSE, lines |-> <<>>]

\* A module-level statement of a library file as ast.parse gives it.
\* node is the node's type.  For an Assign, target is what targets[0] is:
\* "PYDEPS" (an ast.Name with that id), "name" (an ast.Name with another
\* id), "attribute", "subscript" or "tuple"; kind is what its value is:
\* "list", "str", "dict", "num" (literals) or "expr" (anything else);
\* items is what iterating the literal yields (the elements of a list, the
\* characters of a string, the keys of a dict); mixed says that one more
\* element, not a string, is among them.
Stmt(node, target, kind, items, mixed) ==
    [node |-> node, target |-> target, kind |-> kind, items |-> items,
     mixed |-> mixed]

\* PYDEPS = [...]
Pydeps(items) == Stmt("Assign", "PYDEPS", "list", items, FALSE)

\* import logging
Import == Stmt("Import", "", "", <<>>, FALSE)

\* A library file: its path and the statements of its body.  Files are
\* listed in the order libdir.glob('**/*.py') yields them.
LibFile(path, body) == [path |-> path, body |-> body]

\* A project with no ignore file, no part and one requirement, whose
\* lib/a.py holds the statement stmt.
Plain(stmt) ==
    [ignore |-> NoIgnore, parts |-> <<>>, reqs |-> {"req"},
     lib |-> << LibFile(<<"lib", "a.py">>, <<Import, stmt>>),
                LibFile(<<"lib", "charms", "b.py">>, <<Pydeps(<<"b">>)>>) >>]

Projects ==
    << \* no ignore file, no parts, no PYDEPS
       [ignore |-> NoIgnore, parts |-> <<>>, reqs |-> {"req"},
        lib |-> << LibFile(<<"lib", "a.py">>, <<>>),
                   LibFile(<<"lib", "charms", "b.py">>, <<>>) >>],
       \* the marker's literal line in the ignore file, PYDEPS in two files,
       \* an assignment to another name
       [ignore |-> [present |-> TRUE,
                    lines |-> <<"metadata.yaml", "build", "metadata.yaml">>],
        parts |-> PartsFull, reqs |-> {"req"},
        lib |-> << LibFile(<<"lib", "a.py">>,
                           << Import,
                              Stmt("Assign", "name", "list", <<"c">>, FALSE),
                              Pydeps(<<"a", "b">>) >>),
                   LibFile(<<"lib", "charms", "b.py">>, <<Pydeps(<<"b", "c">>)>>) >>],
       \* a glob that matches the marker, PYDEPS = [], empty requirements
       [ignore |-> [present |-> TRUE, lines |-> <<"*.yaml">>],
        parts |-> <<>>, reqs |-> {},
        lib |-> << LibFile(<<"lib", "a.py">>, <<Pydeps(<<>>)>>),
                   LibFile(<<"lib", "charms", "b.py">>, <<>>) >>],
       \* a specifier with an environment marker: a;v<"3"
       [ignore |-> [present |-> TRUE, lines |-> <<"build">>],
        parts |-> <<>>, reqs |-> {"req"},
        lib |-> << LibFile(<<"lib", "a.py">>, <<Pydeps(<<"a;v<\"3\"">>)>>),
                   LibFile(<<"lib", "charms", "b.py">>, <<Pydeps(<<"b">>)>>) >>],
       \* empty requirements, no PYDEPS, no ignore file, no parts
       [ignore |-> NoIgnore, parts |-> <<>>, reqs |-> {},
        lib |-> << LibFile(<<"lib", "a.py">>, <<Import>>),
                   LibFile(<<"lib", "charms", "b.py">>, <<>>) >>],
       \* an ignore pattern that matches requirements.txt
       [ignore |-> [present |-> TRUE, lines |-> <<"*.txt">>],
        parts |-> <<>>, reqs |-> {"req"},
        lib |-> << LibFile(<<"lib", "a.py">>, <<>>),
                   LibFile(<<"lib", "charms", "b.py">>, <<>>) >>],
       \* PYDEPS = "ac"
       Plain(Stmt("Assign", "PYDEPS", "str", <<"a", "c">>, FALSE)),
       \* PYDEPS = {"a": 1}
       Plain(Stmt("Assign", "PYDEPS", "dict", <<"a">>, FALSE)),
       \* PYDEPS = 3
       Plain(Stmt("Assign", "PYDEPS", "num", <<>>, FALSE)),
       \* PYDEPS = ["a"] + EXTRA
       Plain(Stmt("Assign", "PYDEPS", "expr", <<>>, FALSE)),
       \* PYDEPS = ["a", 3]
       Plain(Stmt("Assign", "PYDEPS", "list", <<"a">>, TRUE)),
       \* logger.level = 3
       Plain(Stmt("Assign", "attribute", "num", <<>>, FALSE)),
       \* os.environ["a"] = "c"
       Plain(Stmt("Assign", "subscript", "str", <<"c">>, FALSE)),
       \* a, c = "a", "c"
       Plain(Stmt("Assign", "tuple", "expr", <<>>, FALSE)) >>

---------------------------------------------------------------------------
(* get_pydeps and the shell *)

RECURSIVE Concat(_)
Concat(ss) == IF ss = <<>> THEN <<>> ELSE Head(ss) \o Concat(Tail(ss))

\* The loop of get_pydeps over the statements stmts, acc being what it has
\* so far: [raised, list, mixed].
\*   type(node) == ast.Assign and node.targets[0].id == 'PYDEPS': only an
\*     ast.Name has an id, on another target the attribute access raises;
\*   ast.literal_eval(node.value) raises ValueError on what is no literal;
\*   pydeps += v extends the list by what iterating v yields, and raises
\*     TypeError when v is a number.
RECURSIVE ScanBody(_, _)
ScanBody(stmts, acc) ==
    IF stmts = <<>> \/ acc.raised # "" THEN acc
    ELSE LET node == Head(stmts) IN
         IF node.node # "Assign" THEN ScanBody(Tail(stmts), acc)
         ELSE IF node.target \notin {"PYDEPS", "name"}
              THEN [acc EXCEPT !.raised = "AttributeError"]
         ELSE IF node.target # "PYDEPS" THEN ScanBody(Tail(stmts), acc)
         ELSE IF node.kind = "expr" THEN [acc EXCEPT !.raised = "ValueError"]
         ELSE IF node.kind = "num" THEN [acc EXCEPT !.raised = "TypeError"]
         ELSE ScanBody(Tail(stmts),
                       [acc EXCEPT !.list = @ \o node.items,
                                   !.mixed = @ \/ node.mixed])

\* for pyfile in libdir.glob('**/*.py'): for node in tree.body: ...
\* and then '" "'.join(pydeps), which raises TypeError on an element that
\* is not a string.
Scan(lib) ==
    LET acc == ScanBody(Concat([i \in 1..Len(lib) |-> lib[i].body]),
                        [raised |-> "", list |-> <<>>, mixed |-> FALSE])
    IN IF acc.raised = "" /\ acc.mixed
       THEN [acc EXCEPT !.raised = "TypeError"]
       ELSE acc

\* The list pydeps at the end of the loop.
PydepsList(lib) == Scan(lib).list

RECURSIVE Join(_, _)
Join(strs, sep) ==
    IF strs = <<>> THEN <<>>
    ELSE IF Len(strs) = 1 THEN Head(strs)
    ELSE Head(strs) \o sep \o Join(Tail(strs), sep)

\* The string get_pydeps returns, as characters: '' for no specifier, else
\* every specifier between double quotes, separated by blanks.
get_pydeps(lib) ==
    LET pydeps == PydepsList(lib) IN
    IF pydeps = <<>> THEN <<>>
    ELSE <<"\"">>
         \o Join([i \in 1..Len(pydeps) |-> Chars[pydeps[i]]], <<"\"", " ", "\"">>)
         \o <<"\"">>

\* /bin/sh splitting the tail of a command line into words: a double quote
\* opens or closes a quoted stretch and is removed, a blank outside quotes
\* ends the word, quoted and unquoted stretches that touch are one word.
\* An unclosed quote is a syntax error.  (Of the characters the shell
\* treats specially, the specifiers of Projects put only the double quote
\* outside a quoted stretch.)
RECURSIVE ShSplit(_, _, _, _, _)
ShSplit(cs, inQuote, cur, started, words) ==
    IF cs = <<>>
    THEN IF inQuote THEN [ok |-> FALSE, words |-> <<>>]
         ELSE [ok |-> TRUE,
               words |-> IF started THEN Append(words, cur) ELSE words]
    ELSE IF Head(cs) = "\""
         THEN ShSplit(Tail(cs), ~inQuote, cur, TRUE, words)
    ELSE IF Head(cs) = " " /\ ~inQuote
         THEN ShSplit(Tail(cs), FALSE, <<>>, FALSE,
                      IF started THEN Append(words, cur) ELSE words)
    ELSE ShSplit(Tail(cs), inQuote, Append(cur, Head(cs)), TRUE, words)

ShellWords(cs) == ShSplit(cs, FALSE, <<>>, FALSE, <<>>)

ShellStatusFirst(rcs) == rcs[1]

\* The exit status of sh -c 'c1; c2; ...; cn' is that of cn.
ShellStatus(rcs) == rcs[Len(rcs)]

RaisesNever(rc, fail_ok) == FALSE

\* run(): subprocess.call when fail_ok, else subprocess.check_call, which
\* raises CalledProcessError on a non-zero status.
Raises(rc, fail_ok) == ~fail_ok /\ rc # 0

---------------------------------------------------------------------------
(* State *)

VARIABLES
    project,        \* index in Projects of the project in the working directory
    marker,         \* ./metadata.yaml is a file
    zipTool,        \* `which zip` finds zip
    outName,        \* the output path every invocation is given, a name in the project directory
    cache,          \* ~/.packcharm/<project>: [exists, venv, files]
    output,         \* the archive at the output path: [exists, tree]
    retained,       \* runs whose staging directory is still in the project
    run,            \* number of the running (or last) invocation
    args,           \* its arguments: [clean, keep]
    pc,             \* its position
    stagingExists,  \* its staging directory is on disk
    staging,        \* the tree of its staging directory
    partIdx,        \* the part being processed
    pkgIdx,         \* the build package being checked
    dpkgRc,         \* what check_installed last returned, "none" outside the loop
    pydeps,         \* the string get_pydeps returned
    pipArgs,        \* the specifiers the PYDEPS installer invocation was given
    trace,          \* the effects of the invocation, in order
    result,         \* how it ended: [exit, stderr, done, returned]
    output0,        \* history: output when the invocation started
    cache0,         \* history: cache when the invocation started
    repeats,        \* history: the invocation follows one that ended Done, archive written, with the same arguments
    procs,          \* concurrent invocations: [pc, tried, t, keep, out, partIdx] of each
    dirs,           \* concurrent invocations: the staging directories on disk, by time stamp
    outs,           \* concurrent invocations: the archives on disk, by output name
    clock           \* concurrent invocations: the value time.time() last returned

vars == << project, marker, zipTool, outName, repeats, procs, dirs, outs, clock, cache, output, retained, run, args, pc,
           stagingExists, staging, partIdx, pkgIdx, dpkgRc, pydeps, pipArgs,
           trace, result, output0, cache0 >>

conc  == << procs, dirs, outs, clock >>
env   == << project, marker, zipTool, outName, conc >>
hist  == << output0, cache0, repeats >>
loop  == << partIdx, pkgIdx, dpkgRc >>
stage == << stagingExists, staging >>

Proj == Projects[project]

CacheAbsent == [exists |-> FALSE, venv |-> "absent", files |-> {}]

\* A cache left by earlier invocations: the environment, with a package
\* that no declaration of the project asks for any more.
CacheStale ==
    [exists |-> TRUE, venv |-> "ok",
     files |-> {[name |-> "pip", gen |-> 0], [name |-> "stale", gen |-> 0]}]

NoOutput == [exists |-> FALSE, tree |-> EmptyTree]

Running == [exit |-> -1, stderr |-> "", done |-> FALSE, returned |-> FALSE]

Event(op, part, arg, rc) == [op |-> op, part |-> part, arg |-> arg, rc |-> rc]

Log(op, part, arg, rc) == trace' = Append(trace, Event(op, part, arg, rc))

\* An uncaught exception: the interpreter prints the traceback and exits 1.
Raise == /\ pc' = "Aborted"
         /\ result' = [result EXCEPT !.exit = 1, !.stderr = "Traceback"]

\* The listing of the working directory: the project's files, the output of
\* an earlier invocation, and the staging directories on disk.
RootTree ==
    ProjectFiles(Proj.ignore, marker)
    \cup (IF output.exists THEN {F(<<outName>>)} ELSE {})
    \cup { D(<<TempName(r)>>) : r \in retained \cup (IF stagingExists THEN {run} ELSE {}) }

Patterns == COPY_IGNORES(Proj.ignore)

\* The pack() invocations that run at the same time in ConcSpec.
Procs == {1, 2}

\* An invocation that has its arguments and has not acted yet.  tried is
\* the time stamp its tempdir.mkdir() was called with, t the time stamp of
\* the staging directory it made (0: none).
NotStarted(keep, out) ==
    [pc |-> "start", tried |-> 0, t |-> 0, keep |-> keep, out |-> out,
     partIdx |-> 0]

\* -o/--output: the default ./my.charm, or a name *.charm does not match.
OutputNames == {"my.charm", "out.zip"}

Init ==
    /\ project \in 1..Len(Projects)
    /\ marker \in BOOLEAN
    /\ zipTool \in BOOLEAN
    /\ outName \in OutputNames
    /\ repeats = FALSE
    /\ procs = [p \in Procs |-> NotStarted(FALSE, "my.charm")]
    /\ dirs = EmptyTree
    /\ outs = EmptyTree
    /\ clock = 1
    /\ cache \in {CacheAbsent, CacheStale}
    /\ output = NoOutput
    /\ retained = {}
    /\ run = 0
    /\ args = [clean |-> FALSE, keep |-> FALSE]
    /\ pc = "idle"
    /\ stagingExists = FALSE
    /\ staging = EmptyTree
    /\ partIdx = 0
    /\ pkgIdx = 0
    /\ dpkgRc = "none"
    /\ pydeps = <<>>
    /\ pipArgs = <<>>
    /\ trace = <<>>
    /\ result = Running
    /\ output0 = NoOutput
    /\ cache0 = cache

---------------------------------------------------------------------------
(* pack() *)

\* main(): a new process calls pack() with the parsed arguments.
StartRun ==
    /\ pc \in {"idle", "Done", "Aborted"}
    /\ run < MaxRuns
    /\ \E clean \in BOOLEAN, keep \in BOOLEAN :
          args' = [clean |-> clean, keep |-> keep]
    /\ run' = run + 1
    /\ retained' = retained \cup (IF stagingExists THEN {run} ELSE {})
    /\ stagingExists' = FALSE
    /\ staging' = EmptyTree
    /\ partIdx' = 0 /\ pkgIdx' = 0 /\ dpkgRc' = "none"
    /\ pydeps' = <<>> /\ pipArgs' = <<>>
    /\ trace' = <<>>
    /\ result' = Running
    /\ output0' = output
    /\ cache0' = cache
    /\ repeats' = (/\ pc = "Done"
                   /\ \E i \in 1..Len(trace) : trace[i].op = "zip" /\ trace[i].rc = 0
                   /\ args' = args)
    /\ pc' = "check_marker"
    /\ UNCHANGED << env, cache, output >>

CheckMarkerSkipped ==
    /\ pc = "check_marker"
    /\ pc' = "check_zip"
    /\ UNCHANGED << env, cache, output, retained, run, args, stage, loop,
                    pydeps, pipArgs, trace, hist, result >>

\* if not pathlib.Path('./metadata.yaml').is_file(): ... sys.exit(1)
CheckMarker ==
    /\ pc = "check_marker"
    /\ IF marker
       THEN pc' = "check_zip" /\ UNCHANGED result
       ELSE /\ pc' = "Aborted"
            /\ result' = [result EXCEPT !.exit = 1,
                            !.stderr = "Please run from inside a charm directory"]
    /\ UNCHANGED << env, cache, output, retained, run, args, stage, loop,
                    pydeps, pipArgs, trace, hist >>

\* subprocess.check_call(['which', 'zip']) ... sys.exit(1)
CheckZip ==
    /\ pc = "check_zip"
    /\ Log("which_zip", 0, "zip", IF zipTool THEN 0 ELSE 1)
    /\ IF zipTool
       THEN pc' = "ensure_cache" /\ UNCHANGED result
       ELSE /\ pc' = "Aborted"
            /\ result' = [result EXCEPT !.exit = 1, !.stderr = "Please install zip"]
    /\ UNCHANGED << env, cache, output, retained, run, args, stage, loop,
                    pydeps, pipArgs, hist >>

ResetWhenExists(clean, exists) == exists

\* if clean and cache.exists():
ShouldReset(clean, exists) == clean /\ exists

\* if clean and cache.exists(): shutil.rmtree(cache)
\* cache.mkdir(parents=True, exist_ok=True)
EnsureCache ==
    /\ pc = "ensure_cache"
    /\ LET reset == ShouldReset(args.clean, cache.exists)
           c == IF reset THEN CacheAbsent ELSE cache
       IN /\ cache' = [c EXCEPT !.exists = TRUE]
          /\ trace' = trace
                \o (IF reset THEN <<Event("rmtree_cache", 0, "", 0)>> ELSE <<>>)
                \o <<Event("mkdir_cache", 0, "", 0)>>
    /\ pc' = "provision"
    /\ UNCHANGED << env, output, retained, run, args, stage, loop,
                    pydeps, pipArgs, result, hist >>

\* if not (cache / 'venv').exists(): run(f'virtualenv {cache / "venv"}')
\* A failed virtualenv leaves nothing or a part of the environment.
Provision ==
    /\ pc = "provision"
    /\ IF cache.venv # "absent"
       THEN /\ pc' = "mk_tempdir"
            /\ UNCHANGED << cache, trace, result >>
       ELSE \E rc \in {0, 1}, left \in {"absent", "partial"} :
              /\ Log("virtualenv", 0, "", rc)
              /\ IF Raises(rc, FALSE)
                 THEN /\ cache' = [cache EXCEPT !.venv = left]
                      /\ Raise
                 ELSE /\ left = "absent"
                      /\ cache' = [cache EXCEPT !.venv = "ok",
                                      !.files = {[name |-> "pip", gen |-> run]}]
                      /\ pc' = "mk_tempdir"
                      /\ UNCHANGED result
    /\ UNCHANGED << env, output, retained, run, args, stage, loop,
                    pydeps, pipArgs, hist >>

\* tempdir = pathlib.Path(f'./packcharm-{time.time()}'); tempdir.mkdir()
\* with (wd / 'charmcraft.yaml').open() as f: charmcraft = yaml.safe_load(f)
MkTempdir ==
    /\ pc = "mk_tempdir"
    /\ stagingExists' = TRUE
    /\ staging' = EmptyTree
    /\ Log("mkdir_tempdir", 0, TempName(run), 0)
    /\ partIdx' = 1 /\ pkgIdx' = 1 /\ dpkgRc' = "none"
    /\ pc' = "parts"
    /\ UNCHANGED << env, cache, output, retained, run, args,
                    pydeps, pipArgs, result, hist >>

IsDumpAlways(part) == TRUE

\* if part.get('plugin') == 'dump':
IsDump(part) == part.plugin = "dump"

\* for part_key in charmcraft.get('parts', []): the loop's head, and
\* for pkg in part['build-packages']: check_installed(pkg)
PartsLoop ==
    /\ pc = "parts"
    /\ IF partIdx > Len(Proj.parts)
       THEN /\ pc' = "merge_root"
            /\ dpkgRc' = "none"
            /\ UNCHANGED << partIdx, pkgIdx, trace >>
       ELSE LET part == Proj.parts[partIdx] IN
            IF pkgIdx <= Len(part.pkgs)
            THEN \E installed \in BOOLEAN :
                   /\ Log("check_installed", partIdx, part.pkgs[pkgIdx],
                          IF installed THEN 0 ELSE 1)
                   /\ dpkgRc' = IF installed THEN "True" ELSE "False"
                   /\ pkgIdx' = pkgIdx + 1
                   /\ UNCHANGED << partIdx, pc >>
            ELSE IF IsDump(part)
            THEN /\ pc' = "pull"
                 /\ UNCHANGED << partIdx, pkgIdx, dpkgRc, trace >>
            ELSE /\ partIdx' = partIdx + 1
                 /\ pkgIdx' = 1
                 /\ UNCHANGED << pc, dpkgRc, trace >>
    /\ UNCHANGED << env, cache, output, retained, run, args, stage,
                    pydeps, pipArgs, result, hist >>

\* run(part['override-pull'], shell=True, env={'CRAFT_TARGET_ARCH': 'amd64'})
Pull ==
    /\ pc = "pull"
    /\ \E rc \in {0, 1} :
         /\ Log("pull", partIdx, Proj.parts[partIdx].name, rc)
         /\ IF Raises(rc, FALSE)
            THEN Raise
            ELSE pc' = "merge_part" /\ UNCHANGED result
    /\ UNCHANGED << env, cache, output, retained, run, args, stage, loop,
                    pydeps, pipArgs, hist >>

\* shutil.copytree(part['source'], tempdir, dirs_exist_ok=True, ignore=...)
MergePart ==
    /\ pc = "merge_part"
    /\ LET part == Proj.parts[partIdx] IN
         /\ staging' = copytree(SubTree(RootTree, part.source), staging,
                                Patterns, "part", partIdx)
         /\ Log("merge_part", partIdx, part.name, 0)
    /\ partIdx' = partIdx + 1
    /\ pkgIdx' = 1
    /\ pc' = "parts"
    /\ UNCHANGED << env, cache, output, retained, run, args, stagingExists,
                    dpkgRc, pydeps, pipArgs, result, hist >>

\* shutil.copytree('.', tempdir, dirs_exist_ok=True, ignore=...)
MergeRoot ==
    /\ pc = "merge_root"
    /\ staging' = copytree(RootTree, staging, Patterns, "root", 0)
    /\ Log("merge_root", 0, "", 0)
    /\ pc' = "write_special"
    /\ UNCHANGED << env, cache, output, retained, run, args, stagingExists,
                    loop, pydeps, pipArgs, result, hist >>

\* with (tempdir / 'manifest.yaml').open('w') as f: f.write(MANIFEST_YAML)
\* with (tempdir / 'dispatch').open('w') as f: f.write(DISPATCH)
\* open('w') on a path that is a directory raises IsADirectoryError.
WriteSpecial ==
    /\ pc = "write_special"
    /\ LET isDir(p) == p \in DOMAIN staging /\ staging[p].dir
           gen == {<<"manifest.yaml">>, <<"dispatch">>}
       IN IF \E p \in gen : isDir(p)
          THEN Raise /\ UNCHANGED << staging, trace >>
          ELSE /\ staging' = [p \in (DOMAIN staging) \cup gen |->
                                IF p \in gen THEN Origin("gen", 0, FALSE)
                                ELSE staging[p]]
               /\ trace' = trace \o << Event("write", 0, "manifest.yaml", 0),
                                       Event("write", 0, "dispatch", 0) >>
               /\ pc' = "chmod"
               /\ UNCHANGED result
    /\ UNCHANGED << env, cache, output, retained, run, args, stagingExists,
                    loop, pydeps, pipArgs, hist >>

\* run(f'chmod +x {tempdir}/dispatch')
Chmod ==
    /\ pc = "chmod"
    /\ \E rc \in {0, 1} :
         /\ Log("chmod", 0, "dispatch", rc)
         /\ IF Raises(rc, FALSE)
            THEN Raise /\ UNCHANGED staging
            ELSE /\ staging' = [staging EXCEPT ![<<"dispatch">>].exec = TRUE]
                 /\ pc' = "install_reqs"
                 /\ UNCHANGED result
    /\ UNCHANGED << env, cache, output, retained, run, args, stagingExists,
                    loop, pydeps, pipArgs, hist >>

\* pip install into the environment: the named packages that are not
\* there yet arrive, the others stay as they are.
PipInstall(c, names, r) ==
    [c EXCEPT !.files = @ \cup
        { [name |-> n, gen |-> r] :
            n \in { x \in names : \A f \in c.files : f.name # x } }]

\* The requirement set of the staged requirements.txt: that of the project
\* root's file, or of the file a part's source brought; none without the file.
StagedReqs ==
    IF <<"requirements.txt">> \notin DOMAIN staging THEN {}
    ELSE IF staging[<<"requirements.txt">>].from = "root" THEN Proj.reqs
    ELSE {"partreq"}

\* run(f'. {cache / "venv/bin/activate"}; {pip_install_cmd} -r {tempdir}/requirements.txt', shell=True)
\* pip fails on a missing requirements file; without a whole environment
\* the command line fails.
InstallReqs ==
    /\ pc = "install_reqs"
    /\ \E rcPip \in (IF <<"requirements.txt">> \in DOMAIN staging /\ cache.venv = "ok"
                     THEN {0, 1} ELSE {1}) :
         LET rc == ShellStatus(<<0, rcPip>>) IN
         /\ Log("pip_req", 0, "requirements.txt", rcPip)
         /\ IF Raises(rc, FALSE)
            THEN Raise /\ UNCHANGED cache
            ELSE /\ cache' = PipInstall(cache, StagedReqs, run)
                 /\ pc' = "scan_pydeps"
                 /\ UNCHANGED result
    /\ UNCHANGED << env, output, retained, run, args, stage, loop,
                    pydeps, pipArgs, hist >>

\* pydeps = get_pydeps(wd / 'lib'); if pydeps: ...
ScanPydeps ==
    /\ pc = "scan_pydeps"
    /\ IF Scan(Proj.lib).raised # ""
       THEN Raise /\ UNCHANGED pydeps
       ELSE /\ pydeps' = get_pydeps(Proj.lib)
            /\ pc' = IF pydeps' # <<>> THEN "install_pydeps" ELSE "mk_venv"
            /\ UNCHANGED result
    /\ UNCHANGED << env, cache, output, retained, run, args, stage, loop,
                    pipArgs, trace, hist >>

\* run(f'. {cache / "venv/bin/activate"}; {pip_install_cmd} {pydeps}', shell=True)
\* The shell splits pydeps into pip's arguments; a command line it cannot
\* parse runs nothing and fails.
InstallPydeps ==
    /\ pc = "install_pydeps"
    /\ LET sh == ShellWords(pydeps)
           given == [i \in 1..Len(sh.words) |-> NameOf(sh.words[i])]
       IN \E rcPip \in (IF sh.ok /\ cache.venv = "ok" THEN {0, 1} ELSE {1}) :
            LET rc == ShellStatus(<<0, rcPip>>) IN
            /\ Log("pip_pydeps", 0, "", rcPip)
            /\ pipArgs' = given
            /\ IF Raises(rc, FALSE)
               THEN Raise /\ UNCHANGED cache
               ELSE /\ cache' = PipInstall(cache, {given[i] : i \in 1..Len(given)}, run)
                    /\ pc' = "mk_venv"
                    /\ UNCHANGED result
    /\ UNCHANGED << env, output, retained, run, args, stage, loop,
                    pydeps, hist >>

\* (tempdir / 'venv').mkdir(): FileExistsError when the path exists.
MkVenv ==
    /\ pc = "mk_venv"
    /\ IF <<"venv">> \in DOMAIN staging
       THEN Raise /\ UNCHANGED << staging, trace >>
       ELSE /\ staging' = [p \in (DOMAIN staging) \cup {<<"venv">>} |->
                             IF p = <<"venv">> THEN Origin("gen", 0, TRUE)
                             ELSE staging[p]]
            /\ Log("mkdir_venv", 0, "venv", 0)
            /\ pc' = "export"
            /\ UNCHANGED result
    /\ UNCHANGED << env, cache, output, retained, run, args, stagingExists,
                    loop, pydeps, pipArgs, hist >>

\* run(f'cp -r {cache}/venv/lib/python3.*/site-packages/* {tempdir}/venv/', shell=True)
\* With nothing in site-packages the glob stays as written and cp fails.
Export ==
    /\ pc = "export"
    /\ \E rc \in (IF cache.files = {} THEN {1} ELSE {0, 1}) :
         /\ Log("export", 0, "", rc)
         /\ IF Raises(rc, FALSE)
            THEN Raise /\ UNCHANGED staging
            ELSE LET new == { <<"venv", f.name>> : f \in cache.files }
                     gen(p) == (CHOOSE f \in cache.files : f.name = p[2]).gen
                 IN /\ staging' = [p \in (DOMAIN staging) \cup new |->
                                     IF p \in new THEN Origin("cache", gen(p), FALSE)
                                     ELSE staging[p]]
                    /\ pc' = "zip"
                    /\ UNCHANGED result
    /\ UNCHANGED << env, cache, output, retained, run, args, stagingExists,
                    loop, pydeps, pipArgs, hist >>

\* The shell's ./* in the staging directory: every top-level name that does
\* not start with a dot; zip -r takes all that is below them.
Globbed(tree) == { p \in DOMAIN tree : Head(Chars[p[1]]) # "." }

\* zip -1 -r -q <output> ./*: zip adds to the archive at the output path.
\* An entry of the same name is replaced; the others stay in the archive.
ZipInto(old, tree) ==
    LET new == Globbed(tree) IN
    [exists |-> TRUE,
     tree |-> [p \in (DOMAIN old.tree) \cup new |->
                 IF p \in new THEN tree[p] ELSE old.tree[p]]]

\* run(f'cd {tempdir};zip -1 -r -q {output_file.resolve()} ./*;cd {wd}', shell=True)
\* A zip that fails leaves the file at the output path as it was.
Zip ==
    /\ pc = "zip"
    /\ \E rcZip \in {0, 1} :
         LET rc == ShellStatus(<<0, rcZip, 0>>) IN
         /\ Log("zip", 0, outName, rcZip)
         /\ output' = IF rcZip = 0 THEN ZipInto(output, staging) ELSE output
         /\ IF Raises(rc, FALSE)
            THEN Raise
            ELSE pc' = "cleanup" /\ UNCHANGED result
    /\ UNCHANGED << env, cache, retained, run, args, stage, loop,
                    pydeps, pipArgs, hist >>

RemoveAlways(keep) == TRUE

\* if not keep:
ShouldRemove(keep) == ~keep

\* if not keep: shutil.rmtree(tempdir)
\* print('Done!'); return output_file
Cleanup ==
    /\ pc = "cleanup"
    /\ IF ShouldRemove(args.keep)
       THEN /\ stagingExists' = FALSE
            /\ staging' = EmptyTree
            /\ Log("rmtree_tempdir", 0, TempName(run), 0)
       ELSE UNCHANGED << stagingExists, staging, trace >>
    /\ result' = [result EXCEPT !.exit = 0, !.done = TRUE, !.returned = TRUE]
    /\ pc' = "Done"
    /\ UNCHANGED << env, cache, output, retained, run, args, loop,
                    pydeps, pipArgs, hist >>

Next ==
    \/ StartRun
    \/ CheckMarker
    \/ CheckZip
    \/ EnsureCache
    \/ Provision
    \/ MkTempdir
    \/ PartsLoop
    \/ Pull
    \/ MergePart
    \/ MergeRoot
    \/ WriteSpecial
    \/ Chmod
    \/ InstallReqs
    \/ ScanPydeps
    \/ InstallPydeps
    \/ MkVenv
    \/ Export
    \/ Zip
    \/ Cleanup

Spec == Init /\ [][Next]_vars

---------------------------------------------------------------------------
(* Two pack() invocations at the same time in one project directory.       *)
(* Each is the pipeline of pack() from tempdir.mkdir() on, in the steps     *)
(* that read or write the project directory; what comes before touches     *)
(* only the cache, which the invocations share and which is warm here.     *)
(* The n of an entry written here is the invocation that wrote it.         *)

seqvars == << cache, output, retained, run, args, pc, stage, loop, pydeps,
              pipArgs, trace, result, hist >>

ConcInit ==
    /\ project \in {1, 2}
    /\ marker = TRUE
    /\ zipTool = TRUE
    /\ outName = "my.charm"
    /\ repeats = FALSE
    /\ procs \in [Procs -> { NotStarted(k, o) : k \in BOOLEAN, o \in OutputNames }]
    /\ dirs = EmptyTree
    /\ outs = EmptyTree
    /\ clock = 1
    /\ cache = CacheStale
    /\ output = NoOutput
    /\ retained = {}
    /\ run = 0
    /\ args = [clean |-> FALSE, keep |-> FALSE]
    /\ pc = "idle"
    /\ stagingExists = FALSE
    /\ staging = EmptyTree
    /\ partIdx = 0
    /\ pkgIdx = 0
    /\ dpkgRc = "none"
    /\ pydeps = <<>>
    /\ pipArgs = <<>>
    /\ trace = <<>>
    /\ result = Running
    /\ output0 = NoOutput
    /\ cache0 = cache

\* The listing of the working directory and of all that is below it: the
\* project's files, the archives written so far, and every staging
\* directory on disk with its content.
DiskTree ==
    ProjectFiles(Proj.ignore, marker)
    \cup { F(<<o>>) : o \in DOMAIN outs }
    \cup { D(<<TempName(t)>>) : t \in DOMAIN dirs }
    \cup UNION { { [path |-> <<TempName(t)>> \o p, dir |-> dirs[t][p].dir] :
                     p \in DOMAIN dirs[t] } : t \in DOMAIN dirs }

CAbort(self) == procs' = [procs EXCEPT ![self].pc = "Aborted"]

\* The steps up to the cache: they write nothing in the project directory.
CStart(self) ==
    /\ procs[self].pc = "start"
    /\ procs' = [procs EXCEPT ![self].pc = "mk_tempdir"]
    /\ UNCHANGED << project, marker, zipTool, outName, dirs, outs, clock, seqvars >>

MkdirExistOk(exists) == FALSE

\* tempdir.mkdir(): FileExistsError when the path exists.
MkdirRaises(exists) == exists

\* tempdir = pathlib.Path(f'./packcharm-{time.time()}'); tempdir.mkdir()
\* The clock does not go back; two calls can read the same value.
CMkTempdir(self) ==
    /\ procs[self].pc = "mk_tempdir"
    /\ \E t \in {clock, clock + 1} :
         /\ clock' = t
         /\ IF MkdirRaises(t \in DOMAIN dirs)
            THEN /\ procs' = [procs EXCEPT ![self].pc = "Aborted",
                                           ![self].tried = t]
                 /\ UNCHANGED dirs
            ELSE /\ dirs' = [x \in (DOMAIN dirs) \cup {t} |->
                               IF x \in DOMAIN dirs THEN dirs[x] ELSE EmptyTree]
                 /\ procs' = [procs EXCEPT ![self].pc = "parts",
                                           ![self].tried = t,
                                           ![self].t = t,
                                           ![self].partIdx = 1]
    /\ UNCHANGED << project, marker, zipTool, outName, outs, seqvars >>

\* The parts loop: a dump part is pulled and its source merged.
CParts(self) ==
    /\ procs[self].pc = "parts"
    /\ LET me == procs[self] IN
       IF me.partIdx > Len(Proj.parts)
       THEN /\ procs' = [procs EXCEPT ![self].pc = "merge_root"]
            /\ UNCHANGED dirs
       ELSE LET part == Proj.parts[me.partIdx] IN
            IF ~IsDump(part)
            THEN /\ procs' = [procs EXCEPT ![self].partIdx = @ + 1]
                 /\ UNCHANGED dirs
            ELSE \E rc \in {0, 1} :
                   IF Raises(rc, FALSE)
                   THEN CAbort(self) /\ UNCHANGED dirs
                   ELSE /\ dirs' = [dirs EXCEPT ![me.t] =
                                      copytree(SubTree(DiskTree, part.source), @,
                                               Patterns, "part", self)]
                        /\ procs' = [procs EXCEPT ![self].partIdx = @ + 1]
    /\ UNCHANGED << project, marker, zipTool, outName, outs, clock, seqvars >>

\* shutil.copytree('.', tempdir, dirs_exist_ok=True, ignore=...)
CMergeRoot(self) ==
    /\ procs[self].pc = "merge_root"
    /\ dirs' = [dirs EXCEPT ![procs[self].t] =
                  copytree(DiskTree, @, Patterns, "root", self)]
    /\ procs' = [procs EXCEPT ![self].pc = "write_special"]
    /\ UNCHANGED << project, marker, zipTool, outName, outs, clock, seqvars >>

\* manifest.yaml, dispatch, chmod +x
CWriteSpecial(self) ==
    /\ procs[self].pc = "write_special"
    /\ LET t == procs[self].t
           gen == {<<"manifest.yaml">>, <<"dispatch">>}
       IN \E rc \in {0, 1} :
            /\ dirs' = [dirs EXCEPT ![t] =
                          [p \in (DOMAIN dirs[t]) \cup gen |->
                             IF p = <<"dispatch">>
                             THEN [Origin("gen", self, FALSE) EXCEPT !.exec = (rc = 0)]
                             ELSE IF p \in gen THEN Origin("gen", self, FALSE)
                             ELSE dirs[t][p]]]
            /\ IF Raises(rc, FALSE)
               THEN CAbort(self)
               ELSE procs' = [procs EXCEPT ![self].pc = "export"]
    /\ UNCHANGED << project, marker, zipTool, outName, outs, clock, seqvars >>

\* The installers, (tempdir / 'venv').mkdir() and the cp of site-packages.
CExport(self) ==
    /\ procs[self].pc = "export"
    /\ LET t == procs[self].t
           new == {<<"venv">>} \cup { <<"venv", f.name>> : f \in cache.files }
       IN \E rc \in {0, 1} :
            IF Raises(rc, FALSE) \/ MkdirRaises(<<"venv">> \in DOMAIN dirs[t])
            THEN CAbort(self) /\ UNCHANGED dirs
            ELSE /\ dirs' = [dirs EXCEPT ![t] =
                               [p \in (DOMAIN dirs[t]) \cup new |->
                                  IF p \in new
                                  THEN Origin("cache", self, p = <<"venv">>)
                                  ELSE dirs[t][p]]]
                 /\ procs' = [procs EXCEPT ![self].pc = "zip"]
    /\ UNCHANGED << project, marker, zipTool, outName, outs, clock, seqvars >>

\* cd {tempdir};zip -1 -r -q {output_file.resolve()} ./*;cd {wd}
CZip(self) ==
    /\ procs[self].pc = "zip"
    /\ LET me == procs[self]
           old == IF me.out \in DOMAIN outs
                  THEN [exists |-> TRUE, tree |-> outs[me.out]]
                  ELSE NoOutput
       IN \E rcZip \in {0, 1} :
            /\ outs' = IF rcZip = 0
                       THEN [o \in (DOMAIN outs) \cup {me.out} |->
                               IF o = me.out THEN ZipInto(old, dirs[me.t]).tree
                               ELSE outs[o]]
                       ELSE outs
            /\ IF Raises(ShellStatus(<<0, rcZip, 0>>), FALSE)
               THEN CAbort(self)
               ELSE procs' = [procs EXCEPT ![self].pc = "cleanup"]
    /\ UNCHANGED << project, marker, zipTool, outName, dirs, clock, seqvars >>

\* if not keep: shutil.rmtree(tempdir).  By then the clock has passed the
\* time stamp the directory was made with.
CCleanup(self) ==
    /\ procs[self].pc = "cleanup"
    /\ LET me == procs[self] IN
       IF ShouldRemove(me.keep)
       THEN /\ dirs' = [x \in (DOMAIN dirs) \ {me.t} |-> dirs[x]]
            /\ clock' = IF clock > me.t THEN clock ELSE me.t + 1
       ELSE UNCHANGED << dirs, clock >>
    /\ procs' = [procs EXCEPT ![self].pc = "Done"]
    /\ UNCHANGED << project, marker, zipTool, outName, outs, seqvars >>

ConcNext ==
    \E self \in Procs :
       \/ CStart(self)
       \/ CMkTempdir(self)
       \/ CParts(self)
       \/ CMergeRoot(self)
       \/ CWriteSpecial(self)
       \/ CExport(self)
       \/ CZip(self)
       \/ CCleanup(self)

ConcSpec == ConcInit /\ [][ConcNext]_vars

---------------------------------------------------------------------------
(* Properties *)

Terminal == pc \in {"Done", "Aborted"}

At(op) == { i \in 1..Len(trace) : trace[i].op = op }

Did(op) == At(op) # {}

Succeeded(op) == \E i \in At(op) : trace[i].rc = 0

\* Every step before the archive step ran and succeeded.
PriorStepsSucceeded ==
    /\ marker
    /\ Succeeded("which_zip")
    /\ Did("mkdir_cache")
    /\ cache.venv = "ok"
    /\ \A i \in At("virtualenv") : trace[i].rc = 0
    /\ Did("mkdir_tempdir")
    /\ \A k \in 1..Len(Proj.parts) :
         /\ \A j \in 1..Len(Proj.parts[k].pkgs) :
              \E i \in At("check_installed") :
                 trace[i].part = k /\ trace[i].arg = Proj.parts[k].pkgs[j]
         /\ Proj.parts[k].plugin = "dump" =>
              /\ \E i \in At("pull") : trace[i].part = k /\ trace[i].rc = 0
              /\ \E i \in At("merge_part") : trace[i].part = k
    /\ Did("merge_root")
    /\ Cardinality(At("write")) = 2
    /\ Succeeded("chmod")
    /\ Succeeded("pip_req")
    /\ PydepsList(Proj.lib) # <<>> => Succeeded("pip_pydeps")
    /\ Did("mkdir_venv")
    /\ Succeeded("export")
    /\ \A i \in 1..Len(trace) : trace[i].op \notin {"zip", "check_installed"} => trace[i].rc = 0

\* C1: the file at the output path changes only in the archive step, which
\* runs only after every earlier step of the pipeline has succeeded; a run
\* that ends Aborted leaves the output path as it was when the run started.
C1_OutputAtomicity ==
    /\ [][output' # output => pc = "zip" /\ PriorStepsSucceeded]_vars
    /\ [](pc = "Aborted" => output = output0)

\* A run aborts at the export step over the archive of an earlier run.
C1_Witness ==
    /\ pc = "Aborted"
    /\ output0.exists
    /\ \E i \in At("export") : trace[i].rc # 0

\* The exclusion set as the patterns read: the built-ins and every line of
\* the ignore file.
ExclusionSet ==
    BUILTIN_IGNORES \o (IF Proj.ignore.present THEN Proj.ignore.lines ELSE <<>>)

\* For every name, the names that match it when read as patterns.
Matching == [n \in DOMAIN Chars |->
                { q \in DOMAIN Chars : fnmatch(Chars[n], Chars[q]) }]

\* Some segment of path p matches some pattern of pats.
Excluded(p, pats) ==
    \E i \in 1..Len(p), j \in 1..Len(pats) : pats[j] \in Matching[p[i]]

Copied(tree) == { p \in DOMAIN tree : tree[p].from \in {"root", "part"} }

C3_MarkerAlwaysStaged ==
    /\ (stagingExists /\ Did("merge_root")) => <<MARKER>> \in DOMAIN staging
    /\ Succeeded("zip") => <<MARKER>> \in DOMAIN output.tree

\* C4: a run whose compressor returned non-zero ends Aborted: the staging
\* directory is kept, 'Done!' is not printed, nothing is returned.
C4_ZipFailureAborts ==
    (Terminal /\ \E i \in At("zip") : trace[i].rc # 0) =>
        /\ pc = "Aborted"
        /\ stagingExists
        /\ ~result.done
        /\ ~result.returned

FatalOps == {"virtualenv", "pull", "pip_req", "pip_pydeps", "export"}

\* C5: when environment provisioning, a pull command, either installer
\* invocation or the export copy returns non-zero, that command is the last
\* thing the run does and the run is Aborted.
C5_FailureAborts ==
    \A i \in 1..Len(trace) :
        (trace[i].op \in FatalOps /\ trace[i].rc # 0) =>
            /\ i = Len(trace)
            /\ pc = "Aborted"
            /\ Cardinality({ j \in At(trace[i].op) : trace[j].part = trace[i].part }) = 1

\* A dump part's pull fails with a part still to come.
C5_Witness ==
    /\ pc = "Aborted"
    /\ trace # <<>>
    /\ trace[Len(trace)].op = "pull"
    /\ trace[Len(trace)].rc # 0
    /\ partIdx < Len(Proj.parts)

Created == Did("mkdir_tempdir")

\* C6: at the end of a run its staging directory has been removed exactly
\* when the run ended Done without keep; until then no step of the run
\* removes the directory or a path from it.
C6_StagingLifecycle ==
    /\ [](Terminal => ((Created /\ ~stagingExists) <=> (pc = "Done" /\ ~args.keep)))
    /\ [][(run' = run /\ stagingExists /\ ~(pc = "cleanup" /\ ~args.keep)) =>
            (stagingExists' /\ \A p \in DOMAIN staging : p \in DOMAIN staging')]_vars

\* A run without keep aborts with merged content in its staging directory.
C6_Witness ==
    /\ pc = "Aborted"
    /\ ~args.keep
    /\ stagingExists
    /\ <<"src", "charm.py">> \in DOMAIN staging

\* C7: with the marker or the archiving tool missing, the run exits 1 with
\* its diagnostic and has no other effect: cache, output and staging are
\* untouched and no command but `which zip` ran; the marker is checked first.
C7_PreconditionAbort ==
    (pc # "idle" /\ (~marker \/ ~zipTool)) =>
        /\ pc \in {"check_marker", "check_zip", "Aborted"}
        /\ cache = cache0
        /\ output = output0
        /\ ~stagingExists
        /\ \A i \in 1..Len(trace) : trace[i].op = "which_zip"
        /\ ~marker => trace = <<>>
        /\ pc = "Aborted" =>
             /\ result.exit = 1
             /\ result.stderr = IF ~marker
                                THEN "Please run from inside a charm directory"
                                ELSE "Please install zip"

\* A reset run over an existing cache, with neither marker nor zip.
C7_Witness ==
    /\ pc = "Aborted"
    /\ ~marker
    /\ ~zipTool
    /\ args.clean
    /\ cache.exists

\* C8: in a reset run over an existing cache, no file of the cache as it was
\* before the run is in the cache once the environment is provisioned, nor
\* under venv/ in the staging tree, nor under venv/ in the archive the run
\* writes.
C8_ResetLeavesNothingStale ==
    (args.clean /\ cache0.exists /\ Did("mkdir_tempdir")) =>
        LET stale(tree) == { p \in DOMAIN tree :
                               /\ tree[p].from = "cache"
                               /\ [name |-> p[2], gen |-> tree[p].n] \in cache0.files }
        IN /\ cache.files \cap cache0.files = {}
           /\ stale(staging) = {}
           /\ Succeeded("zip") => stale(output.tree) = {}

\* C9: only dump parts are pulled and merged, each merge after its pull;
\* every part that has been processed had each build package checked.
C9_PartsByPlugin ==
    /\ \A i \in At("pull") \cup At("merge_part") :
          Proj.parts[trace[i].part].plugin = "dump"
    /\ \A i \in At("merge_part") :
          \E j \in 1..(i - 1) :
             trace[j].op = "pull" /\ trace[j].part = trace[i].part /\ trace[j].rc = 0
    /\ \A p \in DOMAIN staging :
          staging[p].from = "part" => Proj.parts[staging[p].n].plugin = "dump"
    /\ \A k \in 1..Len(Proj.parts) :
          partIdx > k =>
             \A j \in 1..Len(Proj.parts[k].pkgs) :
                \E i \in At("check_installed") :
                   trace[i].part = k /\ trace[i].arg = Proj.parts[k].pkgs[j]

\* A run over a project with dump parts, a part of another plugin and a
\* part with no plugin ends Done.
C9_Witness ==
    /\ pc = "Done"
    /\ Len(Proj.parts) = 4
    /\ Did("merge_part")

Range(s) == { s[i] : i \in 1..Len(s) }

\* C10: the PYDEPS installer is given exactly the specifiers declared in
\* the library files; it is invoked once when there are any, never when
\* there are none.
C10_InstallsDeclaredSet ==
    /\ Did("pip_pydeps") => Range(pipArgs) = Range(PydepsList(Proj.lib))
    /\ Cardinality(At("pip_pydeps")) <= 1
    /\ pc \in {"mk_venv", "export", "zip", "cleanup", "Done"} =>
          (Did("pip_pydeps") <=> Range(PydepsList(Proj.lib)) # {})

---------------------------------------------------------------------------
(* Claims on the dependency step, concurrency and merge order *)

\* No statement of a library file assigns PYDEPS.
NoMarkerDeclaration ==
    \A i \in 1..Len(Proj.lib) : \A j \in 1..Len(Proj.lib[i].body) :
        Proj.lib[i].body[j].target # "PYDEPS"

\* Every external command the run has issued returned 0, the package
\* presence checks aside.
CommandsSucceeded ==
    \A i \in 1..Len(trace) : trace[i].op # "check_installed" => trace[i].rc = 0

VenvChildren(tree) == { p \in DOMAIN tree : Len(p) > 1 /\ p[1] = "venv" }

\* C11: on a project with the marker, a parts declaration, an empty
\* requirements file and no PYDEPS assignment, whatever the cache and the
\* ignore file hold, a run whose external commands succeed ends Done and the
\* archive holds an executable dispatch, manifest.yaml and an empty venv
\* directory.
C11_EmptyProjectPacks ==
    (Terminal /\ marker /\ zipTool /\ Proj.reqs = {} /\ NoMarkerDeclaration
        /\ CommandsSucceeded) =>
        /\ pc = "Done"
        /\ output.exists
        /\ <<"dispatch">> \in DOMAIN output.tree
        /\ output.tree[<<"dispatch">>].exec
        /\ <<"manifest.yaml">> \in DOMAIN output.tree
        /\ <<"venv">> \in DOMAIN output.tree
        /\ VenvChildren(output.tree) = {}

\* C12: a run without reset that follows a Done run with the same
\* arguments on the unchanged project writes an archive with the same set
\* of paths as the archive it found; neither the output of the first run
\* nor its kept staging directory is an entry of it.
C12_SecondRunSamePaths ==
    (run >= 2 /\ pc = "Done" /\ Succeeded("zip") /\ repeats /\ ~args.clean) =>
        /\ DOMAIN output.tree = DOMAIN output0.tree
        /\ \A p \in DOMAIN output.tree :
              p[1] # outName /\ \A r \in 1..(run - 1) : p[1] # TempName(r)

Staged == { p \in Procs : procs[p].t # 0 }

\* No two invocations use one staging directory, and an invocation whose
\* mkdir met an existing name is aborted without a directory.
UniqueStaging ==
    /\ \A p, q \in Staged : p # q => procs[p].t # procs[q].t
    /\ \A p \in Procs :
          (procs[p].tried # 0 /\ procs[p].t = 0) => procs[p].pc = "Aborted"

\* Every entry of an invocation's staging tree was written by that
\* invocation, and the directory stays on disk until the invocation itself
\* removes it.
StagingIsolated ==
    \A p \in Staged :
       IF procs[p].t \in DOMAIN dirs
       THEN \A x \in DOMAIN dirs[procs[p].t] : dirs[procs[p].t][x].n = p
       ELSE procs[p].pc = "Done" /\ ~procs[p].keep

\* Every entry of the archive at p's output path was staged by p.
ArchiveOwn(p) ==
    procs[p].out \in DOMAIN outs =>
        \A x \in DOMAIN outs[procs[p].out] : outs[procs[p].out][x].n = p

\* The claim of C14 as it reads: under every interleaving of two
\* invocations, the staging directories are distinct, no staging tree and
\* no archive holds an entry the other invocation staged, and no cleanup
\* removes the other's directory.
C14_ConcurrentIsolation ==
    /\ UniqueStaging
    /\ StagingIsolated
    /\ \A p \in Procs : ArchiveOwn(p)

\* C14, amended: the same, the archive part for two invocations that were
\* given different output paths.
C14_IsolationDistinctOutputs ==
    /\ UniqueStaging
    /\ StagingIsolated
    /\ \A p \in Procs :
          (\A q \in Procs \ {p} : procs[q].out # procs[p].out) => ArchiveOwn(p)

\* Both invocations have staged and archived, to different output paths,
\* each while the other's staging directory was on disk; the first has
\* ended and kept its directory, the second is about to clean up.
C14_Witness ==
    /\ procs[1].out # procs[2].out
    /\ procs[1].pc = "Done" /\ procs[2].pc = "cleanup"
    /\ procs[1].keep
    /\ DOMAIN outs = {procs[1].out, procs[2].out}
    /\ Cardinality(DOMAIN dirs) = 2

\* The module-level statements of the library files, in scan order.
LibStmts == Concat([i \in 1..Len(Proj.lib) |-> Proj.lib[i].body])

\* The PYDEPS assignments whose value is not a literal list of strings.
BadDeclarations ==
    { i \in 1..Len(LibStmts) :
        /\ LibStmts[i].target = "PYDEPS"
        /\ (LibStmts[i].kind # "list" \/ LibStmts[i].mixed) }

\* C15: with a PYDEPS assignment whose value is not a literal list of
\* strings (an expression that is no literal, a bare string, a number, a
\* dict, a list with an element that is no string), the run does not get
\* past the scan: it ends Aborted there, the PYDEPS installer is not
\* invoked, and nothing derived from that value is installed.
C15_NonListAborts ==
    BadDeclarations # {} =>
        /\ pc \notin {"install_pydeps", "mk_venv", "export", "zip", "cleanup", "Done"}
        /\ ~Did("pip_pydeps")
        /\ \A i \in BadDeclarations :
              \A f \in cache.files \ cache0.files :
                 f.name \notin Range(LibStmts[i].items)

\* C16: a run that reaches the dependency step invokes the installer on the
\* requirements file of the project root: the invocation is not failed by
\* what the ignore file or the parts hold, and what a successful one has
\* installed is the requirement set of the project root's file (nothing
\* when that file is empty).
C16_RootRequirementsInstalled ==
    /\ (pc = "install_reqs" /\ cache.venv = "ok") =>
          <<"requirements.txt">> \in DOMAIN staging
          /\ staging[<<"requirements.txt">>].from = "root"
    /\ Succeeded("pip_req") =>
          /\ \A r \in Proj.reqs : \E f \in cache.files : f.name = r
          /\ \A f \in cache.files \ cache0.files :
                f.gen = run /\ f.name \notin Range(pipArgs) /\ f.name # "pip"
                   => f.name \in Proj.reqs

\* The library files without their assignments to anything but PYDEPS.
LibOnlyPydeps ==
    [i \in 1..Len(Proj.lib) |->
        LibFile(Proj.lib[i].path,
                SelectSeq(Proj.lib[i].body,
                          LAMBDA n : n.node # "Assign" \/ n.target = "PYDEPS"))]

\* The run was aborted by the scan: its last command is the requirements
\* installer, which succeeded.
AbortedInScan ==
    /\ pc = "Aborted"
    /\ trace # <<>>
    /\ trace[Len(trace)].op = "pip_req"
    /\ trace[Len(trace)].rc = 0

\* C18: module-level assignments to another plain name, to an attribute, to
\* a subscript or to a tuple of names are ignored by the scan: the scan
\* aborts the run only if it would abort without them, and what it returns
\* is what it would return without them.
C18_OtherTargetsIgnored ==
    /\ AbortedInScan => Scan(LibOnlyPydeps).raised # ""
    /\ pc \in {"install_pydeps", "mk_venv", "export", "zip", "cleanup", "Done"} =>
          pydeps = get_pydeps(LibOnlyPydeps)

\* The exclusion patterns in force for project i: the built-ins and the
\* lines of its ignore file, without the literal line of the marker.
InForce(i) ==
    SelectSeq(BUILTIN_IGNORES \o (IF Projects[i].ignore.present
                                  THEN Projects[i].ignore.lines ELSE <<>>),
              LAMBDA x : x # MARKER)

\* The paths among entries that no pattern in force for project i excludes.
Offered(entries, i) ==
    { e.path : e \in { x \in entries : ~Excluded(x.path, InForce(i)) } }

\* For every project, the paths the project root offers to the merge, the
\* marker and the archive of an earlier run aside.
RootOffersOf ==
    [i \in 1..Len(Projects) |->
        Offered(ProjectFiles(Projects[i].ignore, FALSE), i)]

\* For every project and every part of it, the paths the part's source
\* directory offers to its merge.
PartOffersOf ==
    [i \in 1..Len(Projects) |->
        [k \in 1..Len(Projects[i].parts) |->
            Offered(SubTree(ProjectFiles(Projects[i].ignore, FALSE),
                            Projects[i].parts[k].source), i)]]

\* The paths the project root offers to the merge of this run: with the
\* marker and the archive an earlier run left.
RootOffers ==
    RootOffersOf[project]
    \cup Offered((IF marker THEN {F(<<MARKER>>)} ELSE {})
                 \cup (IF output0.exists THEN {F(<<outName>>)} ELSE {}), project)

\* The parts merged so far in this run.
Merged == { trace[i].part : i \in At("merge_part") }

Generated ==
    (IF Did("write") THEN {<<"manifest.yaml">>, <<"dispatch">>} ELSE {})
    \cup (IF Did("mkdir_venv") THEN {<<"venv">>} ELSE {})

\* The writer the pipeline order gives path p: the generated files, else the
\* project root, else the last merged part that offers it.  root is what
\* the merged root offers, part[k] what the merged part k offers.
LastWriter(p, root, part) ==
    IF p \in Generated THEN [from |-> "gen", n |-> 0]
    ELSE IF p \in root THEN [from |-> "root", n |-> 0]
    ELSE LET ks == { k \in DOMAIN part : p \in part[k] }
         IN [from |-> "part", n |-> CHOOSE k \in ks : \A j \in ks : j <= k]

\* C19: in the staging tree the last writer wins, in the order parts (as
\* declared), project root, generated files: the tree holds exactly the
\* paths that a merged part, the merged root or the generator offers (with
\* what the export copies under venv/), and each path is of its last writer.
C19_LastWriterWins ==
    stagingExists =>
        LET root == IF Did("merge_root") THEN RootOffers ELSE {}
            part == [k \in Merged |-> PartOffersOf[project][k]]
            offered == UNION { part[k] : k \in Merged } \cup root \cup Generated
        IN /\ { p \in DOMAIN staging : ~(Len(p) = 2 /\ p[1] = "venv") } = offered
           /\ \A p \in offered :
                 /\ staging[p].from = LastWriter(p, root, part).from
                 /\ staging[p].n = LastWriter(p, root, part).n

\* A run is about to archive a project with two dump parts: data.bin is of the
\* later part, src/charm.py and requirements.txt of the root although a
\* part brought them, src/x.py of the part next to the root's files,
\* manifest.yaml and dispatch generated although the root and a part
\* brought files of those names.
C19_Witness ==
    /\ project = 2
    /\ pc = "zip"
    /\ staging[<<"data.bin">>].from = "part" /\ staging[<<"data.bin">>].n = 4
    /\ staging[<<"src", "charm.py">>].from = "root"
    /\ staging[<<"src", "x.py">>].from = "part"
    /\ staging[<<"requirements.txt">>].from = "root"
    /\ staging[<<"manifest.yaml">>].from = "gen"
    /\ staging[<<"dispatch">>].from = "gen"
    /\ <<"manifest.yaml">> \in RootOffers
    /\ <<"dispatch">> \in PartOffersOf[project][2]

=============================================================================
